---- MODULE Spec2Model ----
(***************************************************************************)
(* Portfolio-Performance-Tracker: the persistence layer (DatabaseManager), *)
(* the lot-matching engine it feeds, and the portfolio view that displays  *)
(* the resulting metrics.                                                  *)
(*                                                                         *)
(* Four specifications share the module:                                   *)
(*   Spec      the transactions / stock_splits tables and their queries    *)
(*   LotSpec   FIFO lot matching over a stock's timeline                   *)
(*   ViewSpec  MyPortfolioView.update_portfolio and the zero-share toggle  *)
(*   StockSpec the stocks / portfolio_stocks tables and their query        *)
(*                                                                         *)
(* Numbers: money is held in whole units and share counts of the view in   *)
(* units of 0.00001 share, so that the formatting of the view (2 and 4     *)
(* decimals) is computed and not assumed.                                  *)
(***************************************************************************)
EXTENDS Integers, Sequences, FiniteSets, TLC

VARIABLES
    \* ---- DatabaseManager (sqlite tables, last value returned) ----
    transactions,       \* rows of table transactions, in rowid order
    stock_splits,       \* rows of table stock_splits, in rowid order
    result,             \* what the last DatabaseManager call returned
    stock_rows,         \* rows of table stocks
    portfolio_stocks,   \* rows of table portfolio_stocks
    \* ---- lot matching of one stock ----
    timeline,           \* the transactions processed so far, in order
    lots,               \* open lots, oldest first
    realised_pl,        \* running realised P/L
    warnings,           \* findings attached to the snapshot
    \* ---- MyPortfolioView ----
    portfolio,          \* argument of the last update_portfolio call
    updated,            \* update_portfolio has returned at least once
    stocks_table,       \* rows of the QTableWidget (cells and hidden flag)
    show_zero_shares,   \* the checkbox
    portfolio_name_label,
    portfolio_value_label,
    portfolio_cost_basis_label,
    portfolio_pl_dollar_label,
    portfolio_pl_percent_label

dbVars   == <<transactions, stock_splits, result>>
stockVars == <<stock_rows, portfolio_stocks>>
lotVars  == <<timeline, lots, realised_pl, warnings>>
viewVars == <<portfolio, updated, stocks_table, show_zero_shares,
              portfolio_name_label, portfolio_value_label, portfolio_cost_basis_label,
              portfolio_pl_dollar_label, portfolio_pl_percent_label>>
vars     == <<dbVars, stockVars, lotVars, viewVars>>

\* An SQL NULL / Python None is the empty tuple, a present value x is <<x>>.
NULL == <<>>
Some(x) == <<x>>

\* All orderings (sequences without repetition) of a finite set.
Orderings(S) ==
    {f \in [1..Cardinality(S) -> S] : \A i, j \in DOMAIN f : i # j => f[i] # f[j]}

RECURSIVE SeqSum(_)
SeqSum(s) == IF s = <<>> THEN 0 ELSE Head(s) + SeqSum(Tail(s))

(***************************************************************************)
(*                       DatabaseManager                                   *)
(***************************************************************************)

\* Bounds of the database model.
MaxTxns == 2
MaxSplits == 2
MaxBulk == 2

StockIds == {1, 2}
Dates == {1, 2}
Quantities == {10}
Prices == {8}
TransactionTypes == {"BUY", "SELL"}
Ratios == {0, 2}

\* INSERT INTO transactions (stock_id, date, quantity, price, transaction_type):
\* the columns original_quantity and original_price are not named and stay NULL.
TransactionRow(id, stock_id, date, quantity, price, transaction_type) ==
    [id |-> id, stock_id |-> stock_id, date |-> date, quantity |-> quantity,
     price |-> price, transaction_type |-> transaction_type,
     original_quantity |-> NULL, original_price |-> NULL]

\* INSERT INTO transactions (..., original_quantity, original_price): the seven
\* values of the caller's tuple are stored as given.
BulkTransactionRow(id, t) ==
    [id |-> id, stock_id |-> t.stock_id, date |-> t.date, quantity |-> t.quantity,
     price |-> t.price, transaction_type |-> t.transaction_type,
     original_quantity |-> Some(t.original_quantity),
     original_price |-> Some(t.original_price)]

\* The tuples a caller hands to bulk_insert_transactions: quantity and price as
\* entered, repeated as original_quantity and original_price.
BulkTransactionTuples ==
    {[stock_id |-> s, date |-> d, quantity |-> q, price |-> p,
      transaction_type |-> "BUY", original_quantity |-> q, original_price |-> p] :
        s \in StockIds, d \in Dates, q \in Quantities, p \in Prices}

\* INSERT INTO stock_splits (stock_id, date, ratio): no check of the ratio, no
\* check for an existing split of that stock and date.
SplitRow(id, stock_id, date, ratio) ==
    [id |-> id, stock_id |-> stock_id, date |-> date, ratio |-> ratio]

NoResult == [op |-> "none", stock_id |-> 0, rows |-> <<>>]

\* DatabaseManager.add_transaction
AddTransaction ==
    \E s \in StockIds, d \in Dates, q \in Quantities, p \in Prices,
       ty \in TransactionTypes :
        /\ Len(transactions) < MaxTxns
        /\ transactions' = Append(transactions,
               TransactionRow(Len(transactions) + 1, s, d, q, p, ty))
        /\ result' = NoResult
        /\ UNCHANGED <<stock_splits, stockVars, lotVars, viewVars>>

RECURSIVE InsertTransactions(_, _)
InsertTransactions(table, tuples) ==
    IF tuples = <<>> THEN table
    ELSE InsertTransactions(
             Append(table, BulkTransactionRow(Len(table) + 1, Head(tuples))),
             Tail(tuples))

\* DatabaseManager.bulk_insert_transactions
BulkInsertTransactions ==
    \E n \in 1..MaxBulk :
        /\ Len(transactions) + n <= MaxTxns
        /\ \E tuples \in [1..n -> BulkTransactionTuples] :
               transactions' = InsertTransactions(transactions, tuples)
        /\ result' = NoResult
        /\ UNCHANGED <<stock_splits, stockVars, lotVars, viewVars>>

\* DatabaseManager.add_stock_split
AddStockSplit ==
    \E s \in StockIds, d \in Dates, r \in Ratios :
        /\ Len(stock_splits) < MaxSplits
        /\ stock_splits' = Append(stock_splits,
               SplitRow(Len(stock_splits) + 1, s, d, r))
        /\ result' = NoResult
        /\ UNCHANGED <<transactions, stockVars, lotVars, viewVars>>

RECURSIVE InsertSplits(_, _)
InsertSplits(table, tuples) ==
    IF tuples = <<>> THEN table
    ELSE InsertSplits(
             Append(table, SplitRow(Len(table) + 1, Head(tuples).stock_id,
                                    Head(tuples).date, Head(tuples).ratio)),
             Tail(tuples))

\* DatabaseManager.bulk_insert_stock_splits
BulkInsertStockSplits ==
    \E n \in 1..MaxBulk :
        /\ Len(stock_splits) + n <= MaxSplits
        /\ \E tuples \in [1..n -> [stock_id : StockIds, date : Dates, ratio : Ratios]] :
               stock_splits' = InsertSplits(stock_splits, tuples)
        /\ result' = NoResult
        /\ UNCHANGED <<transactions, stockVars, lotVars, viewVars>>

RowsOf(table, stock_id) == {table[i] : i \in {j \in DOMAIN table : table[j].stock_id = stock_id}}

\* ORDER BY date: rows come in ascending date; SQL leaves the relative order of
\* rows with equal dates unspecified, so every such order is a possible answer.
OrderByDate(rows) ==
    {f \in Orderings(rows) : \A i, j \in DOMAIN f : i < j => f[i].date <= f[j].date}

\* SELECT id, date, quantity, price, transaction_type
TransactionColumns(f) ==
    [i \in DOMAIN f |-> [id |-> f[i].id, date |-> f[i].date, quantity |-> f[i].quantity,
                         price |-> f[i].price,
                         transaction_type |-> f[i].transaction_type]]

\* SELECT date, ratio
SplitColumns(f) == [i \in DOMAIN f |-> [date |-> f[i].date, ratio |-> f[i].ratio]]

\* DatabaseManager.get_transactions_for_stock
GetTransactionsForStock ==
    \E s \in StockIds :
        /\ \E f \in OrderByDate(RowsOf(transactions, s)) :
               result' = [op |-> "get_transactions_for_stock", stock_id |-> s,
                          rows |-> TransactionColumns(f)]
        /\ UNCHANGED <<transactions, stock_splits, stockVars, lotVars, viewVars>>

\* DatabaseManager.get_stock_splits
GetStockSplits ==
    \E s \in StockIds :
        /\ \E f \in OrderByDate(RowsOf(stock_splits, s)) :
               result' = [op |-> "get_stock_splits", stock_id |-> s,
                          rows |-> SplitColumns(f)]
        /\ UNCHANGED <<transactions, stock_splits, stockVars, lotVars, viewVars>>

DbInit ==
    /\ transactions = <<>>
    /\ stock_splits = <<>>
    /\ result = NoResult

DbNext ==
    \/ AddTransaction
    \/ BulkInsertTransactions
    \/ AddStockSplit
    \/ BulkInsertStockSplits
    \/ GetTransactionsForStock
    \/ GetStockSplits

(***************************************************************************)
(*                 Lot Tracker (FIFO lot matching)                         *)
(* The engine itself is not among the repository's database and view       *)
(* files; its algorithm is the one of section 4.2 (Lot Tracker) and 4.4    *)
(* (Metrics Aggregator) of the design.                                     *)
(***************************************************************************)

\* Bound of the lot model: the length of a stock's timeline.
MaxTimeline == 3

LotQuantities == {10, 50, 60}
LotPrices == {20, 25, 30}

Min(a, b) == IF a <= b THEN a ELSE b

\* The LIFO slip: the newest lot is matched first.
NewestLot(ls) == Len(ls)

\* The lot a sell draws from next: the oldest open lot.
OldestLot(ls) == 1

\* The slip of closing a whole lot whatever the sell asked for.
ConsumedWholeLot(s, lot) == lot.quantity_remaining

\* Shares taken from one lot by a sell with s shares still to match.
Consumed(s, lot) == Min(s, lot.quantity_remaining)

\* The slip of swallowing the shortfall.
SignalNothing(w, index, shortfall) == w

\* Open lots exhausted while s > 0: the shortfall is surfaced as a finding.
SignalOversold(w, index, shortfall) ==
    Append(w, [kind |-> "OversoldPosition", index |-> index, shortfall |-> shortfall])

\* ls with lot k reduced by c shares, removed when it reaches zero.
ReduceLot(ls, k, c) ==
    IF ls[k].quantity_remaining - c = 0
    THEN SubSeq(ls, 1, k - 1) \o SubSeq(ls, k + 1, Len(ls))
    ELSE [ls EXCEPT ![k].quantity_remaining = @ - c]

\* A SELL of s shares at sell_price against the open lots ls: the lots left, the
\* P/L realised and the shares that found no lot.
RECURSIVE MatchSell(_, _, _)
MatchSell(ls, s, sell_price) ==
    IF s = 0 THEN [lots |-> ls, pl |-> 0, shortfall |-> 0]
    ELSE IF ls = <<>> THEN [lots |-> ls, pl |-> 0, shortfall |-> s]
    ELSE LET k == OldestLot(ls)
             c == Consumed(s, ls[k])
             r == MatchSell(ReduceLot(ls, k, c), s - c, sell_price)
         IN  [lots |-> r.lots,
              pl |-> c * (sell_price - ls[k].unit_cost) + r.pl,
              shortfall |-> r.shortfall]

RECURSIVE TotalSharesOwned(_)
TotalSharesOwned(ls) ==
    IF ls = <<>> THEN 0 ELSE Head(ls).quantity_remaining + TotalSharesOwned(Tail(ls))

\* A BUY of q shares at price p appends a lot.
ProcessBuy ==
    \E q \in LotQuantities, p \in LotPrices :
        /\ Len(timeline) < MaxTimeline
        /\ timeline' = Append(timeline,
               [transaction_type |-> "BUY", quantity |-> q, price |-> p])
        /\ lots' = Append(lots, [open_date |-> Len(timeline) + 1,
                                 quantity_remaining |-> q, unit_cost |-> p])
        /\ UNCHANGED <<realised_pl, warnings, dbVars, stockVars, viewVars>>

\* A SELL of s shares at price p is matched against the open lots.
ProcessSell ==
    \E s \in LotQuantities, p \in LotPrices :
        /\ Len(timeline) < MaxTimeline
        /\ timeline' = Append(timeline,
               [transaction_type |-> "SELL", quantity |-> s, price |-> p])
        /\ LET m == MatchSell(lots, s, p)
           IN  /\ lots' = m.lots
               /\ realised_pl' = realised_pl + m.pl
               /\ warnings' = IF m.shortfall > 0
                              THEN SignalOversold(warnings, Len(timeline) + 1, m.shortfall)
                              ELSE warnings
        /\ UNCHANGED <<dbVars, stockVars, viewVars>>

LotInit ==
    /\ timeline = <<>>
    /\ lots = <<>>
    /\ realised_pl = 0
    /\ warnings = <<>>

LotNext ==
    \/ ProcessBuy
    \/ ProcessSell

(***************************************************************************)
(*                        MyPortfolioView                                  *)
(* A cell is NULL (no item) or Some(text).  The text of a money cell is    *)
(* the amount in hundredths (two decimals), of a share cell the count in   *)
(* units of 0.0001 (four decimals), of a percentage cell hundredths of a   *)
(* percent.                                                                *)
(***************************************************************************)

Columns == 0..12

Symbols == {"AAA.AX", "BBB.AX"}
StockName(symbol) == IF symbol = "AAA.AX" THEN "Alpha" ELSE "Beta"

\* latest_metrics of an open position: 10 shares, two of them from the DRP.
MetricsHeld ==
    [total_shares_owned |-> 1000000, current_cost_basis |-> 100,
     market_value |-> Some(150), realised_pl |-> 20, cash_dividends_total |-> 5,
     drp_shares_total |-> 200000, total_return |-> 75,
     total_return_pct |-> 7500, cumulative_return_pct |-> 5000]

\* latest_metrics of a position that was sold out.
MetricsClosed ==
    [total_shares_owned |-> 0, current_cost_basis |-> 0,
     market_value |-> Some(0), realised_pl |-> 30, cash_dividends_total |-> 0,
     drp_shares_total |-> 0, total_return |-> 30,
     total_return_pct |-> 0, cumulative_return_pct |-> 3000]

\* latest_metrics of a partial snapshot: no price, market_value is None.
MetricsNoValue ==
    [total_shares_owned |-> 1000000, current_cost_basis |-> 100,
     market_value |-> NULL, realised_pl |-> 0, cash_dividends_total |-> 0,
     drp_shares_total |-> 0, total_return |-> 0,
     total_return_pct |-> 0, cumulative_return_pct |-> 0]

\* latest_metrics of a position sold down to a float residue of 0.00001 share.
MetricsDust == [MetricsClosed EXCEPT !.total_shares_owned = 1]

\* What a stock object of portfolio.stocks can look like to the view: its
\* latest_metrics (None or a dict) and its converted price (None or a number).
StockKinds ==
    {[metrics |-> NULL, price |-> Some(5)],
     [metrics |-> Some(MetricsHeld), price |-> Some(5)],
     [metrics |-> Some(MetricsHeld), price |-> NULL],
     [metrics |-> Some(MetricsClosed), price |-> Some(5)],
     [metrics |-> Some(MetricsNoValue), price |-> Some(5)],
     [metrics |-> Some(MetricsDust), price |-> Some(5)]}

Stocks ==
    {[yahoo_symbol |-> y, name |-> StockName(y), metrics |-> k.metrics, price |-> k.price] :
        y \in Symbols, k \in StockKinds}

\* portfolio.stocks is a dict keyed by yahoo_symbol: its items in dict order.
Portfolios ==
    {[name |-> "Main", stocks |-> st] :
        st \in {f \in UNION {[1..n -> Stocks] : n \in 0..Cardinality(Symbols)} :
                   \A i, j \in DOMAIN f : i # j => f[i].yahoo_symbol # f[j].yahoo_symbol}}

\* f"{x:,.2f}" of an amount in whole units: the text, in hundredths.
FormatMoney(x) == x * 100

\* f"{x:,.4f}" of a share count in units of 0.00001: the text, in units of 0.0001.
FormatShares(x) == (x + 5) \div 10

\* a / b rounded to the nearest integer (b > 0).
RoundDiv(a, b) == IF a >= 0 THEN (2 * a + b) \div (2 * b) ELSE 0 - ((2 * (0 - a) + b) \div (2 * b))

\* f"{(total_return / total_cost_basis) * 100:,.2f}": the text, in hundredths of a percent.
PercentText(total_return, total_cost_basis) == RoundDiv(total_return * 10000, total_cost_basis)

EmptyRow == [cells |-> [c \in Columns |-> NULL], hidden |-> FALSE]

\* The statement of the row's try block that raises, if any:
\*   metrics.get on None; the format of a None price; the format of a None market_value.
RowFailure(stock) ==
    IF stock.metrics = NULL THEN "metrics"
    ELSE IF stock.price = NULL THEN "price"
    ELSE IF stock.metrics[1].market_value = NULL THEN "market_value"
    ELSE "none"

\* Name and symbol (columns 0, 1).
RowBasic(row, stock) ==
    [row EXCEPT !.cells[0] = Some(stock.name), !.cells[1] = Some(stock.yahoo_symbol)]

\* Shares (column 2) and the hidden flag of the row.
RowShares(row, m, checked) ==
    [row EXCEPT !.cells[2] = Some(FormatShares(m.total_shares_owned)),
                !.hidden = (~checked /\ m.total_shares_owned = 0)]

\* Current price and cost basis (columns 3, 4).
RowPrice(row, stock, m) ==
    [row EXCEPT !.cells[3] = Some(FormatMoney(stock.price[1])),
                !.cells[4] = Some(FormatMoney(m.current_cost_basis))]

\* Current value and what follows it (columns 5 to 12): the cells of columns 6
\* to 10 get an item only when their value passes the test, and are otherwise
\* left as they are.
RowRest(row, stock, m) ==
    [row EXCEPT
        !.cells[5] = Some(FormatMoney(m.market_value[1])),
        !.cells[6] = IF m.realised_pl # 0 THEN Some(FormatMoney(m.realised_pl)) ELSE @,
        !.cells[7] = IF m.cash_dividends_total > 0
                     THEN Some(FormatMoney(m.cash_dividends_total)) ELSE @,
        !.cells[8] = IF m.drp_shares_total > 0
                     THEN Some(FormatShares(m.drp_shares_total)) ELSE @,
        !.cells[9] = IF m.drp_shares_total > 0
                     THEN Some((m.drp_shares_total * stock.price[1]) \div 1000) ELSE @,
        !.cells[10] = IF m.total_return # 0 THEN Some(FormatMoney(m.total_return)) ELSE @,
        !.cells[11] = Some(m.total_return_pct),
        !.cells[12] = Some(m.cumulative_return_pct)]

\* One pass of the loop body for a row: the cells written before the statement
\* that raises stay written.
RowAfter(row, stock, checked) ==
    LET f == RowFailure(stock)
        r1 == RowBasic(row, stock)
    IN  IF f = "metrics" THEN r1
        ELSE LET m == stock.metrics[1]
                 r2 == RowShares(r1, m, checked)
             IN  IF f = "price" THEN r2
                 ELSE LET r3 == RowPrice(r2, stock, m)
                      IN  IF f = "market_value" THEN r3 ELSE RowRest(r3, stock, m)

\* The slip of letting the first failing row end the loop.
ProcessedRowsUntilError(stocks) ==
    {i \in DOMAIN stocks : \A j \in 1..(i - 1) : RowFailure(stocks[j]) = "none"}

\* The rows the loop visits: the except clause logs and continues, so all of them.
ProcessedRows(stocks) == DOMAIN stocks

\* The running totals are updated by the last statements of the try block.
RowAdds(stocks, i, field) ==
    IF i \in ProcessedRows(stocks) /\ RowFailure(stocks[i]) = "none"
    THEN (IF field = "market_value" THEN stocks[i].metrics[1].market_value[1]
          ELSE IF field = "current_cost_basis" THEN stocks[i].metrics[1].current_cost_basis
          ELSE stocks[i].metrics[1].total_return)
    ELSE 0

RunningTotal(stocks, field) == SeqSum([i \in DOMAIN stocks |-> RowAdds(stocks, i, field)])

\* setRowCount(n): the first rows keep their items and hidden flags, new rows are empty.
SetRowCount(table, n) ==
    [i \in 1..n |-> IF i <= Len(table) THEN table[i] ELSE EmptyRow]

\* MyPortfolioView.update_portfolio
UpdatePortfolio ==
    \E p \in Portfolios :
        LET resized == SetRowCount(stocks_table, Len(p.stocks))
            total_value == RunningTotal(p.stocks, "market_value")
            total_cost_basis == RunningTotal(p.stocks, "current_cost_basis")
            total_return == RunningTotal(p.stocks, "total_return")
        IN  /\ portfolio' = p
            /\ updated' = TRUE
            /\ portfolio_name_label' = p.name
            /\ stocks_table' =
                   [i \in DOMAIN resized |->
                       IF i \in ProcessedRows(p.stocks)
                       THEN RowAfter(resized[i], p.stocks[i], show_zero_shares)
                       ELSE resized[i]]
            /\ portfolio_value_label' = FormatMoney(total_value)
            /\ portfolio_cost_basis_label' = FormatMoney(total_cost_basis)
            /\ portfolio_pl_dollar_label' = FormatMoney(total_return)
            /\ portfolio_pl_percent_label' =
                   IF total_cost_basis > 0
                   THEN PercentText(total_return, total_cost_basis)
                   ELSE portfolio_pl_percent_label
            /\ UNCHANGED <<show_zero_shares, dbVars, stockVars, lotVars>>

\* float(shares_item.text().replace(',', '')): the number the text shows (four
\* decimals), as a share count in units of 0.00001.
ParseShares(text) == text * 10

\* MyPortfolioView.on_toggle_zero_shares, run by the checkbox's stateChanged.
OnToggleZeroShares ==
    LET state == ~show_zero_shares
    IN  /\ show_zero_shares' = state
        /\ stocks_table' =
               [i \in DOMAIN stocks_table |->
                   IF stocks_table[i].cells[2] # NULL
                   THEN [stocks_table[i] EXCEPT
                            !.hidden = (~state /\ ParseShares(stocks_table[i].cells[2][1]) = 0)]
                   ELSE stocks_table[i]]
        /\ UNCHANGED <<portfolio, updated, portfolio_name_label, portfolio_value_label,
                       portfolio_cost_basis_label, portfolio_pl_dollar_label,
                       portfolio_pl_percent_label, dbVars, stockVars, lotVars>>

ViewInit ==
    /\ portfolio = [name |-> "Portfolio Name", stocks |-> <<>>]
    /\ updated = FALSE
    /\ stocks_table = <<>>
    /\ show_zero_shares = TRUE
    /\ portfolio_name_label = "Portfolio Name"
    /\ portfolio_value_label = 0
    /\ portfolio_cost_basis_label = 0
    /\ portfolio_pl_dollar_label = 0
    /\ portfolio_pl_percent_label = 0

ViewNext ==
    \/ UpdatePortfolio
    \/ OnToggleZeroShares

(***************************************************************************)
(*          DatabaseManager: stocks and portfolio membership                   *)
(***************************************************************************)

\* Bound of the stocks model: the highest rowid table stocks hands out.
MaxStockId == 3

PortfolioIds == {1, 2}
StockPrices == {NULL, Some(5)}
VerificationStatuses == {NULL, Some("Verified"), Some("Pending")}

\* rowid of a new row of table stocks.
NextStockId == IF stock_rows = {} THEN 1
               ELSE (CHOOSE m \in {r.id : r \in stock_rows} : \A r \in stock_rows : r.id <= m) + 1

\* DatabaseManager.add_stock: INSERT OR REPLACE, the row of that yahoo_symbol,
\* if any, gives way to the new row.  current_price and verification_status
\* default to None.
AddStock ==
    \E y \in Symbols, cp \in StockPrices, vs \in VerificationStatuses :
        /\ NextStockId <= MaxStockId
        /\ stock_rows' = {r \in stock_rows : r.yahoo_symbol # y} \cup
               {[id |-> NextStockId, yahoo_symbol |-> y, current_price |-> cp,
                 verification_status |-> vs]}
        /\ result' = [op |-> "add_stock", stock_id |-> NextStockId, rows |-> <<>>]
        /\ UNCHANGED <<transactions, stock_splits, portfolio_stocks, lotVars, viewVars>>

\* DatabaseManager.update_stock_price
UpdateStockPrice ==
    \E y \in Symbols, cp \in StockPrices :
        /\ stock_rows' = {IF r.yahoo_symbol = y THEN [r EXCEPT !.current_price = cp] ELSE r :
                         r \in stock_rows}
        /\ result' = NoResult
        /\ UNCHANGED <<transactions, stock_splits, portfolio_stocks, lotVars, viewVars>>

\* DatabaseManager.add_stock_to_portfolio: INSERT OR IGNORE
AddStockToPortfolio ==
    \E pid \in PortfolioIds, sid \in 1..MaxStockId :
        /\ portfolio_stocks' = portfolio_stocks \cup
               {[portfolio_id |-> pid, stock_id |-> sid]}
        /\ result' = NoResult
        /\ UNCHANGED <<transactions, stock_splits, stock_rows, lotVars, viewVars>>

\* DatabaseManager.remove_stock_from_portfolio
RemoveStockFromPortfolio ==
    \E pid \in PortfolioIds, sid \in 1..MaxStockId :
        /\ portfolio_stocks' = portfolio_stocks \
               {[portfolio_id |-> pid, stock_id |-> sid]}
        /\ result' = NoResult
        /\ UNCHANGED <<transactions, stock_splits, stock_rows, lotVars, viewVars>>

\* FROM stocks s JOIN portfolio_stocks ps ON s.id = ps.stock_id WHERE ps.portfolio_id = ?
MembersOf(portfolio_id) ==
    {r \in stock_rows : [portfolio_id |-> portfolio_id, stock_id |-> r.id] \in portfolio_stocks}

\* verified_stocks: the second query (verified stocks, priced or not), logged only.
VerifiedStocks(portfolio_id) ==
    {r \in MembersOf(portfolio_id) : r.verification_status = Some("Verified")}

\* all_stocks: the first query (all stocks of the portfolio), logged only.
AllStocks(portfolio_id) == MembersOf(portfolio_id)

\* final_result: AND s.verification_status = 'Verified' AND s.current_price IS NOT NULL
FinalResult(portfolio_id) ==
    {r \in MembersOf(portfolio_id) :
        r.verification_status = Some("Verified") /\ r.current_price # NULL}

\* DatabaseManager.get_stocks_for_portfolio: the rows of final_result (a SELECT
\* without ORDER BY: the rows are held as a set).
GetStocksForPortfolio ==
    \E pid \in PortfolioIds :
        /\ result' = [op |-> "get_stocks_for_portfolio", stock_id |-> pid,
                      rows |-> {[id |-> r.id, yahoo_symbol |-> r.yahoo_symbol,
                                 current_price |-> r.current_price] :
                                    r \in FinalResult(pid)}]
        /\ UNCHANGED <<transactions, stock_splits, stockVars, lotVars, viewVars>>

StockInit ==
    /\ stock_rows = {}
    /\ portfolio_stocks = {}

StockNext ==
    \/ AddStock
    \/ UpdateStockPrice
    \/ AddStockToPortfolio
    \/ RemoveStockFromPortfolio
    \/ GetStocksForPortfolio

(***************************************************************************)
(*                        Specifications                                   *)
(***************************************************************************)

Init == DbInit /\ StockInit /\ LotInit /\ ViewInit

Spec == Init /\ [][DbNext]_vars
LotSpec == Init /\ [][LotNext]_vars
ViewSpec == Init /\ [][ViewNext]_vars
StockSpec == Init /\ [][StockNext]_vars

(***************************************************************************)
(*                    Claims about the database                            *)
(***************************************************************************)

RECURSIVE RatioProduct(_, _, _)
\* Product of the ratios of the splits of stock_id dated strictly after date.
RatioProduct(splits, stock_id, date) ==
    IF splits = <<>> THEN 1
    ELSE (IF Head(splits).stock_id = stock_id /\ Head(splits).date > date
          THEN Head(splits).ratio ELSE 1) * RatioProduct(Tail(splits), stock_id, date)

\* Quantity and price as entered at transaction time: original_quantity and
\* original_price where the row carries them, else the quantity and price
\* columns themselves (no statement of DatabaseManager rewrites them).
EnteredQuantity(t) ==
    IF t.original_quantity = NULL THEN t.quantity ELSE t.original_quantity[1]
EnteredPrice(t) ==
    IF t.original_price = NULL THEN t.price ELSE t.original_price[1]

\* C1: whatever insertions of transactions and (valid) splits have happened,
\* every stored transaction has quantity = original_quantity * P and
\* price = original_price / P, P the product of the ratios of its stock's
\* splits dated strictly after it.
C1_SplitAdjusted ==
    (\A k \in DOMAIN stock_splits : stock_splits[k].ratio > 0) =>
        \A i \in DOMAIN transactions :
            LET t == transactions[i]
                P == RatioProduct(stock_splits, t.stock_id, t.date)
            IN  /\ t.quantity = EnteredQuantity(t) * P
                /\ t.price * P = EnteredPrice(t)

\* C8: get_transactions_for_stock returns exactly the stock's transactions,
\* by ascending date, equal dates by ascending id.
C8_TransactionsOrdered ==
    result.op = "get_transactions_for_stock" =>
        /\ {result.rows[i].id : i \in DOMAIN result.rows}
               = {t.id : t \in RowsOf(transactions, result.stock_id)}
        /\ Len(result.rows) = Cardinality(RowsOf(transactions, result.stock_id))
        /\ \A i, j \in DOMAIN result.rows :
               i < j => \/ result.rows[i].date < result.rows[j].date
                        \/ /\ result.rows[i].date = result.rows[j].date
                           /\ result.rows[i].id < result.rows[j].id

\* C9: a split whose ratio is <= 0 is rejected at insertion, so no stored
\* split has a ratio <= 0.
C9_NoInvalidSplitStored ==
    \A k \in DOMAIN stock_splits : stock_splits[k].ratio > 0

\* C10: no two stored splits of one stock share a date, and get_stock_splits
\* returns the stock's splits in strictly increasing date order.
C10_SplitDatesUnique ==
    /\ \A i, j \in DOMAIN stock_splits :
           (i # j /\ stock_splits[i].stock_id = stock_splits[j].stock_id)
               => stock_splits[i].date # stock_splits[j].date
    /\ result.op = "get_stock_splits" =>
           \A i, j \in DOMAIN result.rows :
               i < j => result.rows[i].date < result.rows[j].date

\* C11: every stored transaction, whichever insertion created it, carries
\* original_quantity and original_price equal to the quantity and price that
\* were entered (the quantity and price columns hold the values as entered in
\* every reachable state: no statement rewrites them).
C11_OriginalsStored ==
    \A i \in DOMAIN transactions :
        /\ transactions[i].original_quantity = Some(transactions[i].quantity)
        /\ transactions[i].original_price = Some(transactions[i].price)

\* C12: get_stocks_for_portfolio returns exactly the members of the portfolio
\* whose verification_status is 'Verified'.
C12_VerifiedMembersReturned ==
    result.op = "get_stocks_for_portfolio" =>
        {row.id : row \in result.rows}
            = {r.id : r \in {m \in MembersOf(result.stock_id) :
                                m.verification_status = Some("Verified")}}

\* C13: a (verified) stock of the portfolio that has no current price is not
\* dropped: it is among the stocks handed on for valuation, with its price null.
C13_UnpricedStockKept ==
    result.op = "get_stocks_for_portfolio" =>
        \A r \in MembersOf(result.stock_id) :
            (r.verification_status = Some("Verified") /\ r.current_price = NULL) =>
                \E row \in result.rows : row.id = r.id /\ row.current_price = NULL

(***************************************************************************)
(*                    Claims about lot matching                            *)
(***************************************************************************)

FifoScenario ==
    <<[transaction_type |-> "BUY", quantity |-> 50, price |-> 20],
      [transaction_type |-> "BUY", quantity |-> 50, price |-> 30],
      [transaction_type |-> "SELL", quantity |-> 60, price |-> 25]>>

\* C2: lots are consumed strictly oldest-first: open lots stay in opening
\* order, none is empty, only the oldest open lot can be partly consumed, and
\* Buy 50@20, Buy 50@30, Sell 60@25 leaves realised P/L 200 and one open lot
\* of 40 shares at 30.
C2_FifoMatching ==
    /\ \A i \in DOMAIN lots :
           /\ lots[i].quantity_remaining > 0
           /\ lots[i].open_date \in DOMAIN timeline
           /\ timeline[lots[i].open_date].transaction_type = "BUY"
           /\ lots[i].unit_cost = timeline[lots[i].open_date].price
           /\ i > 1 => /\ lots[i - 1].open_date < lots[i].open_date
                       /\ lots[i].quantity_remaining = timeline[lots[i].open_date].quantity
    /\ timeline = FifoScenario =>
           /\ realised_pl = 200
           /\ lots = <<[open_date |-> 2, quantity_remaining |-> 40, unit_cost |-> 30]>>

C2_Witness ==
    /\ timeline = FifoScenario
    /\ realised_pl = 200
    /\ Len(lots) = 1

RECURSIVE HeldAfter(_)
\* Shares held after the first n transactions of the timeline, counted from
\* the transactions alone: a sell of more than is held leaves nothing.
HeldAfter(n) ==
    IF n = 0 THEN 0
    ELSE LET h == HeldAfter(n - 1)
             t == timeline[n]
         IN  IF t.transaction_type = "BUY" THEN h + t.quantity
             ELSE IF t.quantity > h THEN 0 ELSE h - t.quantity

Oversells(i) ==
    timeline[i].transaction_type = "SELL" /\ timeline[i].quantity > HeldAfter(i - 1)

\* C3: a sell of more shares than the open lots hold at that point is
\* signalled as OversoldPosition (with the shares that found no lot), and no
\* lot's quantity_remaining nor total_shares_owned is ever negative.
C3_OversoldSignalled ==
    /\ \A i \in DOMAIN timeline :
           Oversells(i) =>
               \E k \in DOMAIN warnings :
                   /\ warnings[k].kind = "OversoldPosition"
                   /\ warnings[k].index = i
                   /\ warnings[k].shortfall = timeline[i].quantity - HeldAfter(i - 1)
    /\ \A i \in DOMAIN lots : lots[i].quantity_remaining >= 0
    /\ TotalSharesOwned(lots) >= 0

\* A sell with no prior buy, and a sell that exhausts a lot and still wants more.
C3_Witness ==
    /\ Len(timeline) = 3
    /\ timeline[1].transaction_type = "SELL"
    /\ timeline[2].transaction_type = "BUY"
    /\ Oversells(3)
    /\ Len(warnings) = 2
    /\ lots = <<>>

RECURSIVE Traded(_, _)
\* Shares bought (or sold) by the first n transactions of the timeline.
Traded(n, type) ==
    IF n = 0 THEN 0
    ELSE (IF timeline[n].transaction_type = type THEN timeline[n].quantity ELSE 0)
         + Traded(n - 1, type)

\* C4: when no sell of the timeline exceeds the shares held so far, the open
\* lots hold exactly what was bought minus what was sold.  Every reachable
\* state is the state after a prefix of a timeline.
C4_LotConservation ==
    (\A i \in DOMAIN timeline : ~Oversells(i)) =>
        TotalSharesOwned(lots)
            = Traded(Len(timeline), "BUY") - Traded(Len(timeline), "SELL")

\* Two buys and a sell that closes the first lot and part of the second.
C4_Witness ==
    /\ Len(timeline) = 3
    /\ \A i \in DOMAIN timeline : ~Oversells(i)
    /\ timeline[3].transaction_type = "SELL"
    /\ timeline[3].quantity > timeline[1].quantity
    /\ Len(lots) = 1
    /\ TotalSharesOwned(lots) > 0

(***************************************************************************)
(*                    Claims about the portfolio view                      *)
(***************************************************************************)

\* Sum of a metrics field over the stocks of the last portfolio that have
\* metrics (a market_value of None counts as nothing).
MetricsTotal(field) ==
    SeqSum([i \in DOMAIN portfolio.stocks |->
        IF portfolio.stocks[i].metrics = NULL THEN 0
        ELSE LET m == portfolio.stocks[i].metrics[1]
             IN  IF field = "market_value"
                 THEN (IF m.market_value = NULL THEN 0 ELSE m.market_value[1])
                 ELSE IF field = "current_cost_basis" THEN m.current_cost_basis
                 ELSE m.total_return])

\* C5: after update_portfolio the three totals on display are the sums of
\* market_value, current_cost_basis and total_return over all stocks of the
\* portfolio.
C5_TotalsOverAllStocks ==
    updated =>
        /\ portfolio_value_label = FormatMoney(MetricsTotal("market_value"))
        /\ portfolio_cost_basis_label = FormatMoney(MetricsTotal("current_cost_basis"))
        /\ portfolio_pl_dollar_label = FormatMoney(MetricsTotal("total_return"))

\* C6: the percentage on display is total return / cost basis * 100 of the
\* totals on display when that cost basis is > 0, and 0 when it is 0.
C6_PercentOfLatestPortfolio ==
    updated =>
        IF portfolio_cost_basis_label > 0
        THEN portfolio_pl_percent_label
                 = PercentText(portfolio_pl_dollar_label, portfolio_cost_basis_label)
        ELSE portfolio_pl_percent_label = 0

\* Sum of a metrics field over the stocks of the last portfolio whose row
\* raised nothing.
SoundTotal(field) ==
    SeqSum([i \in DOMAIN portfolio.stocks |->
        IF RowFailure(portfolio.stocks[i]) # "none" THEN 0
        ELSE LET m == portfolio.stocks[i].metrics[1]
             IN  IF field = "market_value" THEN m.market_value[1]
                 ELSE IF field = "current_cost_basis" THEN m.current_cost_basis
                 ELSE m.total_return])

\* C7: a stock whose row fails does not stop update_portfolio: the table has
\* a row per stock, every other stock's row is filled from that stock, their
\* values are in the totals, and the summary labels are set.
C7_FailureDoesNotAbort ==
    updated =>
        /\ Len(stocks_table) = Len(portfolio.stocks)
        /\ \A i \in DOMAIN portfolio.stocks :
               LET st == portfolio.stocks[i]
               IN  RowFailure(st) = "none" =>
                       /\ stocks_table[i].cells[1] = Some(st.yahoo_symbol)
                       /\ stocks_table[i].cells[2]
                              = Some(FormatShares(st.metrics[1].total_shares_owned))
                       /\ stocks_table[i].cells[4]
                              = Some(FormatMoney(st.metrics[1].current_cost_basis))
                       /\ stocks_table[i].cells[5]
                              = Some(FormatMoney(st.metrics[1].market_value[1]))
                       /\ stocks_table[i].cells[12]
                              = Some(st.metrics[1].cumulative_return_pct)
        /\ portfolio_value_label = FormatMoney(SoundTotal("market_value"))
        /\ portfolio_cost_basis_label = FormatMoney(SoundTotal("current_cost_basis"))
        /\ portfolio_pl_dollar_label = FormatMoney(SoundTotal("total_return"))

\* The first stock's row fails, the second stock's row is sound and counted.
C7_Witness ==
    /\ updated
    /\ Len(portfolio.stocks) = 2
    /\ RowFailure(portfolio.stocks[1]) = "metrics"
    /\ RowFailure(portfolio.stocks[2]) = "none"
    /\ portfolio_value_label = FormatMoney(150)
    /\ stocks_table[2].cells[5] = Some(FormatMoney(150))

\* What a cell of columns 6 to 10 shows for a value: its text, or nothing
\* when the value is zero.
ShownOrEmpty(value, text) == IF value # 0 THEN Some(text) ELSE NULL

\* C14: after update_portfolio, in the row of every stock that was processed
\* without error, the Realised P/L, Cash Dividends, DRP Shares, DRP Value and
\* Total Return $ cells show that stock's values of this call, or are empty
\* where the value is zero.
C14_OptionalCellsCurrent ==
    updated =>
        \A i \in DOMAIN portfolio.stocks :
            LET st == portfolio.stocks[i]
                m == st.metrics[1]
                cells == stocks_table[i].cells
            IN  RowFailure(st) = "none" =>
                    /\ cells[6] = ShownOrEmpty(m.realised_pl, FormatMoney(m.realised_pl))
                    /\ cells[7] = ShownOrEmpty(m.cash_dividends_total,
                                               FormatMoney(m.cash_dividends_total))
                    /\ cells[8] = ShownOrEmpty(m.drp_shares_total,
                                               FormatShares(m.drp_shares_total))
                    /\ cells[9] = ShownOrEmpty(m.drp_shares_total,
                                               (m.drp_shares_total * st.price[1]) \div 1000)
                    /\ cells[10] = ShownOrEmpty(m.total_return, FormatMoney(m.total_return))

\* C15: after any update_portfolio calls and toggles, the row of a stock that
\* has metrics is hidden exactly when the checkbox is unchecked and the
\* stock's total_shares_owned is 0.
C15_HiddenIffZeroShares ==
    updated =>
        \A i \in DOMAIN portfolio.stocks :
            portfolio.stocks[i].metrics # NULL =>
                (stocks_table[i].hidden <=>
                    (~show_zero_shares
                        /\ portfolio.stocks[i].metrics[1].total_shares_owned = 0))

====
